---- MODULE Spec2Model ----
(***************************************************************************)
(* ClsHead of mmaction/models/heads/cls_head.py: construction, the forward *)
(* pass with its two training-time augmenters (_mix_embd, _sample_embd)    *)
(* and the loss mapping.                                                   *)
(*                                                                         *)
(* Numbers.  Angles and angular stds are integers in milliradians, mixing  *)
(* coefficients integers in thousandths.  A tensor row is a record         *)
(*     [v, q, r, s]   standing for   v / sqrt(q)  +  r / s                 *)
(* with v, r integer vectors and q, s positive integers, so that unit      *)
(* vectors, their rational combinations and squared norms are exact.       *)
(***************************************************************************)
EXTENDS Integers, Sequences, FiniteSets, TLC

VARIABLES head, last

vars == <<head, last>>

----------------------------------------------------------------------------
(* Fixed-point units and Optional values                                   *)

\* thousandths: the unit of angles (milliradians) and of mixing coefficients
Milli == 10 * 100

\* 0.5 * np.pi in milliradians, rounded up: for an integer m of milliradians
\* m < HalfPi  iff  m / 1000 < pi / 2
HalfPi == 1571

\* the default of class_mixing_alpha (0.1), in thousandths
DefaultMixingAlpha == 100

NoneNum == [some |-> FALSE, val |-> 0]
NoneSeq == [some |-> FALSE, val |-> <<>>]
Some(x) == [some |-> TRUE, val |-> x]

----------------------------------------------------------------------------
(* Integer helpers                                                         *)

Abs(a) == IF a < 0 THEN -a ELSE a

Min(a, b) == IF a < b THEN a ELSE b

RECURSIVE Gcd(_, _)
Gcd(a, b) == IF b = 0 THEN Abs(a) ELSE Gcd(b, a % b)

RECURSIVE SumSeq(_)
SumSeq(s) == IF s = <<>> THEN 0 ELSE Head(s) + SumSeq(Tail(s))

RECURSIVE GcdSeq(_)
GcdSeq(s) == IF s = <<>> THEN 0 ELSE Gcd(Head(s), GcdSeq(Tail(s)))

\* the integer square root of a perfect square
ISqrt(n) == CHOOSE r \in 0..n : r * r = n

\* counts ** (1 / 4) for a count that is a fourth power
Root4(n) == CHOOSE r \in 1..n : r * r * r * r = n

Dot(a, b) == SumSeq([i \in 1..Len(a) |-> a[i] * b[i]])

Scale(k, a) == [i \in 1..Len(a) |-> k * a[i]]

Plus(a, b) == [i \in 1..Len(a) |-> a[i] + b[i]]

Zeros(n) == [i \in 1..n |-> 0]

----------------------------------------------------------------------------
(* Tensor rows                                                             *)

\* v divided by the gcd of its components
Prim(v) ==
    LET g == GcdSeq(v)
    IN  IF g = 0 THEN v ELSE [i \in 1..Len(v) |-> v[i] \div g]

\* the rational vector r / s in lowest terms
Reduce(r, s) ==
    LET g == Gcd(GcdSeq(r), s)
    IN  [r |-> [i \in 1..Len(r) |-> r[i] \div g], s |-> s \div g]

\* normalize(x, dim=1) on one row: x / max(||x||, eps); the zero row stays zero
Normalize(x) ==
    LET p == Prim(x)
        n2 == Dot(p, p)
    IN  [v |-> p, q |-> IF n2 = 0 THEN 1 ELSE n2, r |-> Zeros(Len(x)), s |-> 1]

\* weight.permute(1, 0)
Permute(m) == [j \in 1..Len(m[1]) |-> [i \in 1..Len(m) |-> m[i][j]]]

----------------------------------------------------------------------------
(* The learned state of the angular layer                                 *)

\* the columns of fc_angular.weight, one per class: integer vectors of
\* integer length, repeated past the eighth class
CenterOf(c) ==
    LET W == << <<0, 2>>, <<-4, 3>>, <<3, -4>>, <<-3, 0>>,
                <<4, 3>>, <<0, -1>>, <<-3, -4>>, <<5, 0>> >>
    IN  W[(c % 8) + 1]

\* fc_angular.weight, of shape [embd_size, num_classes]
Weight(num_classes) ==
    [i \in 1..2 |-> [c \in 1..num_classes |-> CenterOf(c - 1)[i]]]

\* normalize(self.fc_angular.weight.permute(1, 0), dim=1)
NormCenters(weight) ==
    LET wt == Permute(weight) IN [c \in 1..Len(wt) |-> Normalize(wt[c])]

----------------------------------------------------------------------------
(* Construction: ClsHead.__init__                                          *)

NoHead == [built |-> FALSE]

UnsetStd == [dim |-> -1, val |-> <<>>]

\* counts = ones(num_classes); counts[class_id] = class_size
Counts(num_classes, class_sizes) ==
    [c \in 1..num_classes |->
        IF (c - 1) \in DOMAIN class_sizes THEN class_sizes[c - 1] ELSE 1]

\* class_angle_std = sampling_angle_std * counts ** (-1/4)
ClassAngleStd(std, counts) ==
    [c \in 1..Len(counts) |-> std \div Root4(counts[c])]

\* BaseHead supplies num_classes, in_channels, class_sizes, dropout, head_loss
\* and losses_extra; the angular layer's weight is its state at construction
WithEmbedding(kw) == kw.embedding /\ kw.embd_size > 0

EnableSampling(kw) ==
    /\ WithEmbedding(kw)
    /\ kw.enable_sampling
    /\ kw.sampling_angle_std.some
    /\ kw.sampling_angle_std.val > 0

AdaptiveSampling(kw) ==
    /\ EnableSampling(kw)
    /\ kw.adaptive_sampling
    /\ kw.class_sizes.some

\* the attributes __init__ sets when no assertion fails
NewHead(kw) ==
    [built |-> TRUE,
     training |-> TRUE,
     num_classes |-> kw.num_classes,
     in_channels |-> kw.in_channels,
     dropout |-> kw.dropout,
     has_last_scale |-> kw.has_last_scale,
     losses_extra |-> kw.losses_extra,
     embd_size |-> kw.embd_size,
     avg_pool |-> (kw.spatial_type = "avg"),
     with_embedding |-> WithEmbedding(kw),
     fc_pre_angular |-> WithEmbedding(kw) /\ kw.in_channels # kw.embd_size,
     fc_angular_weight |->
        IF WithEmbedding(kw) THEN Weight(kw.num_classes) ELSE <<>>,
     enable_sampling |-> EnableSampling(kw),
     adaptive_sampling |-> AdaptiveSampling(kw),
     sampling_angle_std |->
        IF ~EnableSampling(kw) THEN UnsetStd
        ELSE IF AdaptiveSampling(kw)
        THEN [dim |-> 1,
              val |-> ClassAngleStd(kw.sampling_angle_std.val,
                        Counts(kw.num_classes, kw.class_sizes.val))]
        ELSE [dim |-> 0, val |-> <<kw.sampling_angle_std.val>>],
     enable_class_mixing |-> kw.enable_class_mixing,
     alpha_class_mixing |-> kw.class_mixing_alpha]

\* __init__ without the assertion of line 66
ClsHeadInit_NoAssert(kw) == [ok |-> TRUE, head |-> NewHead(kw)]

\* the result of ClsHead(**kw): ok is FALSE when __init__ raises
ClsHeadInit(kw) ==
    IF EnableSampling(kw) /\ ~(kw.sampling_angle_std.val < HalfPi)
    THEN [ok |-> FALSE, head |-> NoHead]
    ELSE [ok |-> TRUE, head |-> NewHead(kw)]

----------------------------------------------------------------------------
(* ClsHead._mix_embd                                                       *)

\* the resolution of the uniform draws u = k / UGrid of torch.rand_like
UGrid == 20

\* torch.where(sampled_ids < labels, sampled_ids, sampled_ids + 1), one entry
SampledNegId_le(sampled_id, label) ==
    IF sampled_id <= label THEN sampled_id ELSE sampled_id + 1

SampledNegId(sampled_id, label) ==
    IF sampled_id < label THEN sampled_id ELSE sampled_id + 1

\* alpha = u, the scale alpha_class_mixing forgotten
MixAlpha_unscaled(alpha_class_mixing, k) ==
    LET g == Gcd(k, UGrid)
    IN  [num |-> k \div g, den |-> UGrid \div g]

\* alpha = alpha_class_mixing * u for the draw u = k / UGrid, in lowest terms
MixAlpha(alpha_class_mixing, k) ==
    LET num == alpha_class_mixing * k
        den == Milli * UGrid
        g == Gcd(num, den)
    IN  [num |-> num \div g, den |-> den \div g]

\* normalize((1 - alpha) * norm_embd + alpha * random_center), one row; both
\* rows are unit vectors v / sqrt(q) with q a perfect square
MixRow(norm_embd, random_center, alpha) ==
    LET se == ISqrt(norm_embd.q)
        sc == ISqrt(random_center.q)
    IN  Normalize(Plus(Scale((alpha.den - alpha.num) * sc, norm_embd.v),
                       Scale(alpha.num * se, random_center.v)))

\* rnd.ids is the draw of torch.randint_like, rnd.u that of torch.rand_like;
\* torch.randint_like(None, ...) raises
MixEmbd(norm_embd, labels, norm_centers, num_classes, alpha_class_mixing, rnd) ==
    IF ~labels.some THEN [ok |-> FALSE]
    ELSE
    LET N == Len(labels.val)
        sampled_neg_ids ==
            [n \in 1..N |-> SampledNegId(rnd.ids[n], labels.val[n])]
        random_centers == [n \in 1..N |-> norm_centers[sampled_neg_ids[n] + 1]]
        alpha == [n \in 1..N |-> MixAlpha(alpha_class_mixing, rnd.u[n])]
    IN  [ok |-> TRUE,
         sampled_neg_ids |-> sampled_neg_ids,
         alpha |-> alpha,
         val |-> [n \in 1..N |->
                    MixRow(norm_embd[n], random_centers[n], alpha[n])]]

----------------------------------------------------------------------------
(* ClsHead._sample_embd                                                    *)

\* torch.cos and torch.sin as the pair <<5 cos a, 5 sin a>>, to the precision
\* of the angles 0, atan(3/4), atan(4/3) and pi/2 (0, 644, 927, 1571)
CosSin(a) ==
    IF a < 322 THEN <<5, 0>>
    ELSE IF a < 786 THEN <<4, 3>>
    ELSE IF a < 1249 THEN <<3, 4>>
    ELSE <<0, 5>>

\* the absolute value without the clamp
ClampedAngle_noclamp(angle) == IF angle > 0 THEN angle ELSE -angle

\* torch.clamp_max(torch.where(angles > 0.0, angles, torch.neg(angles)), 0.5 * np.pi)
ClampedAngle(angle) == Min(IF angle > 0 THEN angle ELSE -angle, HalfPi)

\* unit_directions - dot_prod * norm_embd for the unit rows e = v / sqrt(q)
\* and d = v / sqrt(q) (d.q a perfect square): a rational vector
OrthogonalDirection(e, d) ==
    LET sd == ISqrt(d.q)
    IN  Reduce(Plus(Scale(e.q, d.v), Scale(-Dot(e.v, d.v), e.v)), sd * e.q)

\* the shape of angle_std * torch.randn_like(dot_prod): the columns of the
\* angular std broadcast against the [N, 1] draw
AngleStd(labels, batch_size, adaptive_sampling, sampling_angle_std) ==
    IF adaptive_sampling /\ labels.some
    THEN [n \in 1..batch_size |-> <<sampling_angle_std.val[labels.val[n] + 1]>>]
    ELSE [n \in 1..batch_size |-> sampling_angle_std.val]

\* entry j of a row broadcast to a wider one
Bc(row, j) == row[IF Len(row) = 1 THEN 1 ELSE j]

\* cos_alpha * norm_embd + sin_alpha * orthogonal_directions, one row, alpha
\* broadcast against the embedding's columns
RotateRow(e, orth, alpha) ==
    LET W == IF Len(alpha) > Len(e.v) THEN Len(alpha) ELSE Len(e.v)
        cs == [j \in 1..W |-> CosSin(Bc(alpha, j))]
        sinpart == Reduce([j \in 1..W |-> cs[j][2] * Bc(orth.r, j)], 5 * orth.s)
    IN  [v |-> [j \in 1..W |-> cs[j][1] * Bc(e.v, j)],
         q |-> 25 * e.q,
         r |-> sinpart.r,
         s |-> sinpart.s]

\* rnd.g is the draw of torch.randn_like(norm_embd), rnd.z that of
\* torch.randn_like(dot_prod); the last line raises when the columns of alpha
\* do not broadcast against the embedding's
SampleEmbd(norm_embd, labels, batch_size, adaptive_sampling, sampling_angle_std, rnd) ==
    LET N == Len(norm_embd)
        unit_directions == [n \in 1..N |-> Normalize(rnd.g[n])]
        orthogonal_directions ==
            [n \in 1..N |-> OrthogonalDirection(norm_embd[n], unit_directions[n])]
        angle_std ==
            AngleStd(labels, batch_size, adaptive_sampling, sampling_angle_std)
        angles == [n \in 1..N |->
                     [k \in 1..Len(angle_std[n]) |-> angle_std[n][k] * rnd.z[n]]]
        alpha == [n \in 1..N |->
                    [k \in 1..Len(angles[n]) |-> ClampedAngle(angles[n][k])]]
        cols == Len(alpha[1])
        E == Len(norm_embd[1].v)
    IN  IF ~(cols = 1 \/ cols = E \/ E = 1)
        THEN [ok |-> FALSE]
        ELSE [ok |-> TRUE,
              alpha |-> alpha,
              orthogonal_directions |-> orthogonal_directions,
              val |-> [n \in 1..N |->
                         RotateRow(norm_embd[n], orthogonal_directions[n],
                                   alpha[n])]]

----------------------------------------------------------------------------
(* ClsHead.forward                                                         *)

\* A feature tensor is [ndim, data]: data[n][c] lists the values of sample n,
\* channel c over the (T,) H, W positions.

\* _squash_features: the mean of a channel is exact for the inputs used
SquashFeatures(h, x) ==
    LET x5 == IF x.ndim = 4 THEN [x EXCEPT !.ndim = 5] ELSE x
    IN  IF h.avg_pool
        THEN [x5 EXCEPT !.data =
                [n \in 1..Len(x5.data) |->
                   [c \in 1..Len(x5.data[n]) |->
                      <<SumSeq(x5.data[n][c]) \div Len(x5.data[n][c])>>]]]
        ELSE x5

\* self.dropout(x) with ratio 1/2: in training mode the channels of the mask
\* are kept and scaled by 1 / (1 - 1/2), otherwise the identity
Dropout(h, x, mask) ==
    IF h.training
    THEN [x EXCEPT !.data =
            [n \in 1..Len(x.data) |->
               [c \in 1..Len(x.data[n]) |->
                  [p \in 1..Len(x.data[n][c]) |->
                     2 * mask[n][c] * x.data[n][c][p]]]]]
    ELSE x

\* the weight of the 1x1x1 convolution of fc_pre_angular, [embd_size, in_channels]
PreAngularWeight == << <<1, 0, 0>>, <<0, 1, 0>> >>

\* self.fc_pre_angular(x): a linear map over the channels at every position
FcPreAngular(x) ==
    [x EXCEPT !.data =
        [n \in 1..Len(x.data) |->
           [e \in 1..Len(PreAngularWeight) |->
              [p \in 1..Len(x.data[n][1]) |->
                 SumSeq([c \in 1..Len(x.data[n]) |->
                           PreAngularWeight[e][c] * x.data[n][c][p]])]]]]

RECURSIVE Flatten(_)
Flatten(ss) == IF ss = <<>> THEN <<>> ELSE Head(ss) \o Flatten(Tail(ss))

\* x.view(-1, width): the rows of the row-major data
View(x, width) ==
    LET flat == Flatten(Flatten(x.data))
    IN  [i \in 1..(Len(flat) \div width) |->
            SubSeq(flat, (i - 1) * width + 1, i * width)]

\* the score layers, opaque: the layer applied and the rows it was applied to
FcAngular(norm_embd) == [layer |-> "fc_angular", input |-> norm_embd]

FcClsOut(rows) == [layer |-> "fc_cls_out", input |-> rows]

StepOf(name, out) == [name |-> name, out |-> out]

\* the result of a call that raised after the given steps and draws
Raised(steps, draws) ==
    [outcome |-> "error", steps |-> steps, draws |-> draws, ret |-> <<>>]

\* the result of a call that returned
Returned(steps, draws, cls_score, norm_embd, return_extra_data) ==
    [outcome |-> "ok", steps |-> steps, draws |-> draws,
     ret |-> IF return_extra_data THEN <<cls_score, norm_embd>>
             ELSE <<cls_score>>]

\* the augmenters applied whatever the training flag
ForwardAugment_NoTrainingGuard(h, e0, batch_size, labels, rnd) ==
    LET mixing == h.enable_class_mixing
        mix == MixEmbd(e0, labels, NormCenters(h.fc_angular_weight),
                       h.num_classes, h.alpha_class_mixing,
                       [ids |-> rnd.ids, u |-> rnd.u])
        mixOk == ~mixing \/ mix.ok
        e1 == IF mixing THEN mix.val ELSE e0
        s1 == IF mixing /\ mix.ok THEN <<StepOf("mix", e1)>> ELSE <<>>
        d1 == IF mixing /\ mix.ok THEN <<"randint_like", "rand_like">> ELSE <<>>
        sampling == h.enable_sampling
        samp == SampleEmbd(e1, labels, batch_size, h.adaptive_sampling,
                           h.sampling_angle_std, [g |-> rnd.g, z |-> rnd.z])
        e2 == IF sampling THEN samp.val ELSE e1
        s2 == IF sampling /\ samp.ok THEN <<StepOf("sample", e2)>> ELSE <<>>
        d2 == IF sampling THEN <<"randn_like", "randn_like">> ELSE <<>>
    IN  IF ~mixOk THEN [ok |-> FALSE, steps |-> <<>>, draws |-> <<>>]
        ELSE IF sampling /\ ~samp.ok
        THEN [ok |-> FALSE, steps |-> s1, draws |-> d1 \o d2]
        ELSE [ok |-> TRUE, steps |-> s1 \o s2, draws |-> d1 \o d2, val |-> e2]

\* mixing without its enable_class_mixing guard
ForwardAugment_AlwaysMix(h, e0, batch_size, labels, rnd) ==
    LET mixing == h.training
        mix == MixEmbd(e0, labels, NormCenters(h.fc_angular_weight),
                       h.num_classes, h.alpha_class_mixing,
                       [ids |-> rnd.ids, u |-> rnd.u])
        mixOk == ~mixing \/ mix.ok
        e1 == IF mixing THEN mix.val ELSE e0
        s1 == IF mixing /\ mix.ok THEN <<StepOf("mix", e1)>> ELSE <<>>
        d1 == IF mixing /\ mix.ok THEN <<"randint_like", "rand_like">> ELSE <<>>
        sampling == h.training /\ h.enable_sampling
        samp == SampleEmbd(e1, labels, batch_size, h.adaptive_sampling,
                           h.sampling_angle_std, [g |-> rnd.g, z |-> rnd.z])
        e2 == IF sampling THEN samp.val ELSE e1
        s2 == IF sampling /\ samp.ok THEN <<StepOf("sample", e2)>> ELSE <<>>
        d2 == IF sampling THEN <<"randn_like", "randn_like">> ELSE <<>>
    IN  IF ~mixOk THEN [ok |-> FALSE, steps |-> <<>>, draws |-> <<>>]
        ELSE IF sampling /\ ~samp.ok
        THEN [ok |-> FALSE, steps |-> s1, draws |-> d1 \o d2]
        ELSE [ok |-> TRUE, steps |-> s1 \o s2, draws |-> d1 \o d2, val |-> e2]

\* sampling before mixing
ForwardAugment_SampleFirst(h, e0, batch_size, labels, rnd) ==
    LET sampling == h.training /\ h.enable_sampling
        samp == SampleEmbd(e0, labels, batch_size, h.adaptive_sampling,
                           h.sampling_angle_std, [g |-> rnd.g, z |-> rnd.z])
        e1 == IF sampling THEN samp.val ELSE e0
        s1 == IF sampling /\ samp.ok THEN <<StepOf("sample", e1)>> ELSE <<>>
        d1 == IF sampling THEN <<"randn_like", "randn_like">> ELSE <<>>
        mixing == h.training /\ h.enable_class_mixing
        e2 == IF mixing THEN e1 ELSE e1
        s2 == IF mixing /\ labels.some THEN <<StepOf("mix", e2)>> ELSE <<>>
        d2 == IF mixing /\ labels.some THEN <<"randint_like", "rand_like">>
              ELSE <<>>
    IN  IF sampling /\ ~samp.ok
        THEN [ok |-> FALSE, steps |-> <<>>, draws |-> d1]
        ELSE IF mixing /\ ~labels.some
        THEN [ok |-> FALSE, steps |-> s1, draws |-> d1]
        ELSE [ok |-> TRUE, steps |-> s1 \o s2, draws |-> d1 \o d2, val |-> e2]

\* lines 147-157: if self.training, _mix_embd when enable_class_mixing, then
\* _sample_embd when enable_sampling.  ok is FALSE when one of them raises
ForwardAugment(h, e0, batch_size, labels, rnd) ==
    LET mixing == h.training /\ h.enable_class_mixing
        mix == MixEmbd(e0, labels, NormCenters(h.fc_angular_weight),
                       h.num_classes, h.alpha_class_mixing,
                       [ids |-> rnd.ids, u |-> rnd.u])
        mixOk == ~mixing \/ mix.ok
        e1 == IF mixing THEN mix.val ELSE e0
        s1 == IF mixing /\ mix.ok THEN <<StepOf("mix", e1)>> ELSE <<>>
        d1 == IF mixing /\ mix.ok THEN <<"randint_like", "rand_like">> ELSE <<>>
        sampling == h.training /\ h.enable_sampling
        samp == SampleEmbd(e1, labels, batch_size, h.adaptive_sampling,
                           h.sampling_angle_std, [g |-> rnd.g, z |-> rnd.z])
        e2 == IF sampling THEN samp.val ELSE e1
        s2 == IF sampling /\ samp.ok THEN <<StepOf("sample", e2)>> ELSE <<>>
        d2 == IF sampling THEN <<"randn_like", "randn_like">> ELSE <<>>
    IN  IF ~mixOk THEN [ok |-> FALSE, steps |-> <<>>, draws |-> <<>>]
        ELSE IF sampling /\ ~samp.ok
        THEN [ok |-> FALSE, steps |-> s1, draws |-> d1 \o d2]
        ELSE [ok |-> TRUE, steps |-> s1 \o s2, draws |-> d1 \o d2, val |-> e2]

\* forward(x, labels, return_extra_data) with the random draws rnd: the steps
\* run in order with their outputs, the draws made, and what is returned
Forward(h, x, labels, return_extra_data, rnd) ==
    LET x1 == SquashFeatures(h, x)
        x2 == IF h.dropout THEN Dropout(h, x1, rnd.mask) ELSE x1
        s0 == <<StepOf("squash", x1)>>
                \o (IF h.dropout THEN <<StepOf("dropout", x2)>> ELSE <<>>)
        d0 == IF h.dropout /\ h.training THEN <<"dropout">> ELSE <<>>
    IN  IF h.with_embedding
        THEN LET unnorm_embd == IF h.fc_pre_angular THEN FcPreAngular(x2) ELSE x2
                 rows == View(unnorm_embd, h.embd_size)
                 norm_embd == [n \in 1..Len(rows) |-> Normalize(rows[n])]
                 s1 == s0 \o (IF h.fc_pre_angular
                              THEN <<StepOf("project", unnorm_embd)>> ELSE <<>>)
                          \o <<StepOf("normalize", norm_embd)>>
                 aug == ForwardAugment(h, norm_embd, Len(x2.data),
                                       labels, rnd)
             IN  IF ~aug.ok THEN Raised(s1 \o aug.steps, d0 \o aug.draws)
                 ELSE Returned(s1 \o aug.steps
                                 \o <<StepOf("score", FcAngular(aug.val))>>,
                               d0 \o aug.draws, FcAngular(aug.val),
                               Some(aug.val), return_extra_data)
        ELSE Returned(s0 \o <<StepOf("score",
                                     FcClsOut(View(x2, h.in_channels)))>>,
                      d0, FcClsOut(View(x2, h.in_channels)), NoneSeq,
                      return_extra_data)

----------------------------------------------------------------------------
(* ClsHead.loss                                                           *)

\* Strings are sequences of characters, a dict is the sequence of its
\* [key, val] entries in insertion order.

LossClsKey == <<"l", "o", "s", "s", "/", "c", "l", "s">>

ScaleClsKey == <<"s", "c", "a", "l", "e", "/", "c", "l", "s">>

\* str.replace(old, new) for single characters
Replace(s, old, new) == [i \in 1..Len(s) |-> IF s[i] = old THEN new ELSE s[i]]

\* d[key] = val
DictSet(d, key, val) ==
    IF \E i \in 1..Len(d) : d[i].key = key
    THEN [i \in 1..Len(d) |->
            IF d[i].key = key THEN [key |-> key, val |-> val] ELSE d[i]]
    ELSE Append(d, [key |-> key, val |-> val])

RECURSIVE DictUpdate(_, _)
\* d.update(other)
DictUpdate(d, other) ==
    IF other = <<>> THEN d
    ELSE DictUpdate(DictSet(d, Head(other).key, Head(other).val), Tail(other))

\* self.head_loss(cls_score, labels): a loss over the labels, which raises
\* when there are none
HeadLoss(cls_score, labels) ==
    IF labels.some THEN Some(<<"head_loss">>) ELSE NoneSeq

\* self.fc_angular.loss(name): the regularization term of the angular layer
FcAngularLoss(name) ==
    <<[key |-> <<"l", "o", "s", "s", "/", "r", "e", "g">> \o name,
       val |-> <<"fc_angular">>]>>

\* the key of an extra loss without the replace
ExtraLossKey_NoReplace(extra_loss_name, name) == extra_loss_name \o name

\* extra_loss_name.replace('_', '/') + name
ExtraLossKey(extra_loss_name, name) ==
    Replace(extra_loss_name, "_", "/") \o name

RECURSIVE ExtraLosses(_, _, _)
\* the loop over self.losses_extra.items()
ExtraLosses(losses, names, name) ==
    IF names = <<>> THEN losses
    ELSE ExtraLosses(DictSet(losses, ExtraLossKey(Head(names), name),
                             <<"extra">> \o Head(names)),
                     Tail(names), name)

\* loss(cls_score, labels, norm_embd, name): ok is FALSE when it raises
Loss(h, cls_score, labels, norm_embd, name) ==
    LET primary == HeadLoss(cls_score, labels)
        l1 == DictSet(<<>>, LossClsKey \o name, primary.val)
        l2 == IF h.has_last_scale
              THEN DictSet(l1, ScaleClsKey \o name, <<"last_scale">>)
              ELSE l1
        l3 == ExtraLosses(l2, h.losses_extra, name)
        l4 == IF h.with_embedding THEN DictUpdate(l3, FcAngularLoss(name))
              ELSE l3
    IN  IF ~primary.some THEN [ok |-> FALSE, losses |-> <<>>]
        ELSE [ok |-> TRUE, losses |-> l4]

----------------------------------------------------------------------------
(* The inputs of the calls                                                 *)

MaxClasses == 3

\* embedding rows before normalization: integer vectors of integer length
EmbdInputs ==
    {<<5, 0>>, <<0, 1>>, <<3, 4>>, <<4, 3>>, <<-3, 4>>, <<-8, -6>>, <<4, -3>>,
     <<0, -2>>}

\* draws of torch.randn_like(norm_embd): integer vectors of integer length
Directions ==
    {<<1, 0>>, <<0, 1>>, <<3, 4>>, <<-4, 3>>, <<-3, -4>>, <<4, -3>>, <<0, -5>>,
     <<-2, 0>>}

\* draws of torch.randn_like(dot_prod) are the integers -ZMax..ZMax
ZMax == 3

----------------------------------------------------------------------------
(* _mix_embd called on its own (a static method)                           *)

MixArgs ==
    UNION {
      [op : {"mix_args"},
       norm_embd : {<<Normalize(x)>> : x \in EmbdInputs},
       labels : {NoneSeq} \cup {Some(<<y>>) : y \in 0..(nc - 1)},
       norm_centers : {NormCenters(Weight(nc))},
       num_classes : {nc},
       alpha_class_mixing : {DefaultMixingAlpha, 300},
       rnd : [ids : {<<c>> : c \in 0..(nc - 2)},
              u : {<<k>> : k \in 0..(UGrid - 1)}]]
      : nc \in 2..MaxClasses }

InitMix == head = NoHead /\ last \in MixArgs

MixCall ==
    /\ last.op = "mix_args"
    /\ last' = [op |-> "_mix_embd", args |-> last,
                out |-> MixEmbd(last.norm_embd, last.labels, last.norm_centers,
                                last.num_classes, last.alpha_class_mixing,
                                last.rnd)]
    /\ UNCHANGED head

SpecMix == InitMix /\ [][MixCall]_vars

----------------------------------------------------------------------------
(* _sample_embd called on its own (a static method)                        *)

SampleStds ==
    {[adaptive_sampling |-> FALSE, sampling_angle_std |-> [dim |-> 0, val |-> <<s>>]]
        : s \in {322, 644, 927, 1570}}
    \cup
    {[adaptive_sampling |-> TRUE,
      sampling_angle_std |->
        [dim |-> 1, val |-> ClassAngleStd(s, Counts(nc, cs.val))]]
        : s \in {644, 1570}, nc \in 2..MaxClasses, cs \in {Some(0 :> 16)}}

SampleArgs ==
    UNION {
      [op : {"sample_args"},
       norm_embd : {<<Normalize(x)>> : x \in EmbdInputs},
       labels : {NoneSeq} \cup {Some(<<y>>) : y \in 0..1},
       batch_size : {1},
       adaptive_sampling : {c.adaptive_sampling},
       sampling_angle_std : {c.sampling_angle_std},
       rnd : [g : {<<d>> : d \in Directions},
              z : {<<z>> : z \in (-ZMax)..ZMax}]]
      : c \in SampleStds }

InitSample == head = NoHead /\ last \in SampleArgs

SampleCall ==
    /\ last.op = "sample_args"
    /\ last' = [op |-> "_sample_embd", args |-> last,
                out |-> SampleEmbd(last.norm_embd, last.labels, last.batch_size,
                                   last.adaptive_sampling,
                                   last.sampling_angle_std, last.rnd)]
    /\ UNCHANGED head

SpecSample == InitSample /\ [][SampleCall]_vars

----------------------------------------------------------------------------
(* The head as a state machine                                             *)

ClassCounts == {NoneSeq, Some(0 :> 16), Some(0 :> 1 @@ 1 :> 16)}

StdValues ==
    {NoneNum, Some(-322), Some(0), Some(322), Some(644), Some(1570),
     Some(HalfPi), Some(2000)}

\* every combination of the options __init__ reads
InitKwargs ==
    [spatial_type : {"avg", "none"},
     embedding : BOOLEAN,
     embd_size : {0, 2},
     enable_sampling : BOOLEAN,
     adaptive_sampling : BOOLEAN,
     sampling_angle_std : StdValues,
     enable_class_mixing : BOOLEAN,
     class_mixing_alpha : {DefaultMixingAlpha},
     num_classes : 2..MaxClasses,
     in_channels : {2, 3},
     class_sizes : ClassCounts,
     dropout : {FALSE},
     has_last_scale : {FALSE},
     losses_extra : {<<>>}]

\* the heads whose forward pass is explored: every combination of the
\* augmenters on pooled two-channel features, and every pipeline (pooling,
\* projection, dropout, embedding) with the augmenters both off or both on
FwdKwargs ==
    [spatial_type : {"avg"},
     embedding : BOOLEAN,
     embd_size : {2},
     enable_sampling : BOOLEAN,
     adaptive_sampling : BOOLEAN,
     sampling_angle_std : {Some(644)},
     enable_class_mixing : BOOLEAN,
     class_mixing_alpha : {DefaultMixingAlpha},
     num_classes : 2..MaxClasses,
     in_channels : {2},
     class_sizes : {NoneSeq, Some(0 :> 16)},
     dropout : {FALSE},
     has_last_scale : {FALSE},
     losses_extra : {<<>>}]
    \cup
    {[spatial_type |-> sp, embedding |-> emb, embd_size |-> 2,
      enable_sampling |-> aug, adaptive_sampling |-> FALSE,
      sampling_angle_std |-> Some(644), enable_class_mixing |-> aug,
      class_mixing_alpha |-> DefaultMixingAlpha, num_classes |-> 2,
      in_channels |-> ch, class_sizes |-> NoneSeq, dropout |-> dr,
      has_last_scale |-> FALSE, losses_extra |-> <<>>]
        : sp \in {"avg", "none"}, emb \in BOOLEAN, aug \in BOOLEAN,
          ch \in {2, 3}, dr \in BOOLEAN}

ExtraLossNames ==
    {<<>>,
     << <<"l", "o", "s", "s", "_", "k", "l">> >>,
     << <<"l", "o", "s", "s", "_", "k", "l">>,
        <<"c", "l", "u", "s", "t", "_", "r", "e", "g">> >>}

\* the heads whose loss mapping is explored
LossKwargs ==
    [spatial_type : {"avg"},
     embedding : BOOLEAN,
     embd_size : {2},
     enable_sampling : {FALSE},
     adaptive_sampling : {FALSE},
     sampling_angle_std : {NoneNum},
     enable_class_mixing : {FALSE},
     class_mixing_alpha : {DefaultMixingAlpha},
     num_classes : {2},
     in_channels : {2, 3},
     class_sizes : {NoneSeq},
     dropout : {FALSE},
     has_last_scale : BOOLEAN,
     losses_extra : ExtraLossNames]

\* the name suffixes of loss
Names == {<<>>, <<"/", "h", "0">>}

New == [op |-> "new"]

Init == head = NoHead /\ last = New

Construct(K) ==
    /\ head = NoHead
    /\ last.op = "new"
    /\ \E kw \in K :
          LET r == ClsHeadInit(kw)
          IN  /\ head' = r.head
              /\ last' = [op |-> "__init__", kw |-> kw,
                          outcome |-> IF r.ok THEN "ok" ELSE "error"]

\* nn.Module.train(mode), eval() being train(False)
SetTraining ==
    /\ head.built
    /\ last.op \in {"__init__", "train"}
    /\ \E mode \in BOOLEAN :
          /\ head.training # mode
          /\ head' = [head EXCEPT !.training = mode]
          /\ last' = [op |-> "train", mode |-> mode]

\* a tensor [N, C, 1, 1, 1] (or [N, C, 1, 1]) of the given rows
Tensor(ndim, rows) ==
    [ndim |-> ndim,
     data |-> [n \in 1..Len(rows) |-> [c \in 1..Len(rows[n]) |-> <<rows[n][c]>>]]]

\* the feature tensors given to a head: in_channels channels, integer rows
\* whose kept channels have integer length, more than one position only
\* when the head pools
FeatureInputs(h) ==
    LET rows == IF h.in_channels = 2
                THEN << <<3, 4>>, <<-4, 3>>, <<0, 5>> >>
                ELSE << <<3, 4, 7>>, <<-4, 3, 1>>, <<0, 5, 2>> >>
    IN  {Tensor(5, <<rows[i]>>) : i \in 1..3}
        \cup {Tensor(4, <<rows[1]>>), Tensor(5, <<rows[1], rows[2]>>)}
        \cup (IF h.avg_pool
              THEN {[ndim |-> 5,
                     data |-> <<[c \in 1..h.in_channels |->
                                   <<rows[2][c] - 1, rows[2][c] + 1>>]>>]}
              ELSE {})

LabelInputs(h, N) ==
    {NoneSeq} \cup {Some(l) : l \in [1..N -> 0..(h.num_classes - 1)]}

\* the random draws a call may consume; the draws of a step that the head's
\* flags switch off are never read and are held at one value
DrawInputs(h, N) ==
    LET mixing == h.with_embedding /\ h.training /\ h.enable_class_mixing
        sampling == h.with_embedding /\ h.training /\ h.enable_sampling
        ones == [c \in 1..h.in_channels |-> 1]
    IN  [mask : IF h.dropout /\ h.training
                THEN [1..N -> {ones, [ones EXCEPT ![1] = 0]}]
                ELSE {[n \in 1..N |-> ones]},
         ids : IF mixing THEN [1..N -> 0..(h.num_classes - 2)]
               ELSE {[n \in 1..N |-> 0]},
         u : IF mixing THEN [1..N -> {10, 19}] ELSE {[n \in 1..N |-> 19]},
         g : IF sampling THEN [1..N -> {<<3, 4>>, <<0, -5>>}]
             ELSE {[n \in 1..N |-> <<3, 4>>]},
         z : IF sampling THEN [1..N -> {-1, ZMax}] ELSE {[n \in 1..N |-> ZMax]}]

ForwardCall ==
    /\ head.built
    /\ last.op \in {"__init__", "train"}
    /\ \E x \in FeatureInputs(head), return_extra_data \in BOOLEAN :
       \E labels \in LabelInputs(head, Len(x.data)),
          rnd \in DrawInputs(head, Len(x.data)) :
          last' = [op |-> "forward", x |-> x, labels |-> labels,
                   return_extra_data |-> return_extra_data, rnd |-> rnd,
                   res |-> Forward(head, x, labels, return_extra_data, rnd)]
    /\ UNCHANGED head

\* loss on what the last forward call returned, with its labels or none
LossCall ==
    /\ last.op = "forward"
    /\ last.res.outcome = "ok"
    /\ last.return_extra_data
    /\ \E name \in Names, labels \in {last.labels, NoneSeq} :
          last' = [op |-> "loss", name |-> name, labels |-> labels,
                   res |-> Loss(head, last.res.ret[1], labels, last.res.ret[2],
                                name)]
    /\ UNCHANGED head

ConstructAny == Construct(InitKwargs)

ConstructFwd == Construct(FwdKwargs)

ConstructLoss == Construct(LossKwargs)

SpecInit == Init /\ [][ConstructAny]_vars

Next == ConstructFwd \/ SetTraining \/ ForwardCall \/ LossCall

Spec == Init /\ [][Next]_vars

NextLoss == ConstructLoss \/ ForwardCall \/ LossCall

SpecLoss == Init /\ [][NextLoss]_vars

----------------------------------------------------------------------------
(* Geometry of two rows, for the properties below                          *)

\* |a|^2 |b|^2 - (a . b)^2 = |a|^2 |b|^2 sin^2 of the angle between a and b
CrossSq(a, b) == Dot(a, a) * Dot(b, b) - Dot(a, b) * Dot(a, b)

\* sin(angle(a, b)) <= num / den and the angle is below pi/2
WithinArcsin(a, b, num, den) ==
    /\ Dot(a, b) > 0
    /\ CrossSq(a, b) * den * den <= num * num * Dot(a, a) * Dot(b, b)

\* the row v / sqrt(q) + r / s over one denominator (q a perfect square)
AsRational(row) ==
    LET sq == ISqrt(row.q)
    IN  Reduce(Plus(Scale(row.s, row.v), Scale(sq, row.r)), sq * row.s)

\* Euclidean norm exactly 1
IsUnit(row) == LET w == AsRational(row) IN Dot(w.r, w.r) = w.s * w.s

----------------------------------------------------------------------------
(* Properties                                                              *)

\* C1: in _mix_embd the remapped negative class index is never the true label
\* y, lies in [0, num_classes), and the candidates 0..num_classes-2 are mapped
\* one-to-one onto the num_classes - 1 classes other than y.
C1_NegativeClassNeverLabel ==
    (last.op = "_mix_embd" /\ last.out.ok) =>
        LET y == last.args.labels.val[1]
            nc == last.args.num_classes
            neg == last.out.sampled_neg_ids[1]
        IN  /\ neg # y
            /\ neg \in 0..(nc - 1)
            /\ {SampledNegId(c, y) : c \in 0..(nc - 2)} = (0..(nc - 1)) \ {y}
            /\ Cardinality((0..(nc - 1)) \ {y}) = Cardinality(0..(nc - 2))

\* a call of _mix_embd whose candidate was not below the label and was moved up
C1_Witness ==
    /\ last.op = "_mix_embd"
    /\ last.out.ok
    /\ last.args.rnd.ids[1] >= last.args.labels.val[1]
    /\ last.out.sampled_neg_ids[1] = last.args.rnd.ids[1] + 1

\* C3 as stated: the output of _sample_embd, rotated by one angle per sample,
\* has Euclidean norm 1.
C3_SampleOutputUnitNorm ==
    (/\ last.op = "_sample_embd"
     /\ last.out.ok
     /\ Len(last.out.alpha[1]) = 1) => IsUnit(last.out.val[1])

\* C8 as stated: the mixed embedding is within arcsin(alpha_class_mixing) of
\* the unmixed one.
C8_WithinArcsinOfAlpha ==
    (last.op = "_mix_embd" /\ last.out.ok) =>
        LET g == Gcd(last.args.alpha_class_mixing, Milli)
        IN  WithinArcsin(last.out.val[1].v, last.args.norm_embd[1].v,
                         last.args.alpha_class_mixing \div g, Milli \div g)

\* C8 amended: for alpha_class_mixing < 1/2 the mixed embedding is within
\* arcsin(alpha_class_mixing / (1 - alpha_class_mixing)) of the unmixed one.
C8_WithinArcsinOfAlphaRatio ==
    (/\ last.op = "_mix_embd"
     /\ last.out.ok
     /\ 2 * last.args.alpha_class_mixing < Milli) =>
        LET g == Gcd(last.args.alpha_class_mixing, Milli)
            a == last.args.alpha_class_mixing \div g
            b == Milli \div g
        IN  WithinArcsin(last.out.val[1].v, last.args.norm_embd[1].v, a, b - a)

\* a call of _mix_embd with a positive coefficient that moved the embedding
C8_Witness ==
    /\ last.op = "_mix_embd"
    /\ last.out.ok
    /\ last.out.alpha[1].num > 0
    /\ last.out.val[1] # last.args.norm_embd[1]

C4_InvalidConfig(kw) ==
    \/ /\ kw.enable_sampling
       /\ kw.sampling_angle_std.some
       /\ (kw.sampling_angle_std.val <= 0 \/ kw.sampling_angle_std.val >= HalfPi)
    \/ kw.embedding /\ kw.embd_size <= 0
    \/ kw.adaptive_sampling /\ ~kw.class_sizes.some

\* C4 as stated: constructing ClsHead with an invalid configuration raises
\* and yields no head.
C4_InvalidConfigRaises ==
    (last.op = "__init__" /\ C4_InvalidConfig(last.kw)) =>
        (last.outcome = "error" /\ head = NoHead)

\* C4 amended: __init__ raises, and yields no head, exactly when embedding
\* mode is in effect, enable_sampling is set and sampling_angle_std >= pi/2;
\* enable_sampling with a std that is None or <= 0, embedding with
\* embd_size <= 0 and adaptive_sampling with unknown class_sizes each give a
\* head with the feature switched off.
C4_OnlyLargeStdRaises ==
    last.op = "__init__" =>
        LET kw == last.kw
        IN  /\ last.outcome = "error" <=>
                  (/\ kw.embedding /\ kw.embd_size > 0
                   /\ kw.enable_sampling
                   /\ kw.sampling_angle_std.some
                   /\ kw.sampling_angle_std.val >= HalfPi)
            /\ last.outcome = "error" => head = NoHead
            /\ last.outcome = "ok" =>
                  /\ head.built
                  /\ (kw.embedding /\ kw.embd_size <= 0) => ~head.with_embedding
                  /\ (kw.enable_sampling /\ (~kw.sampling_angle_std.some
                                             \/ kw.sampling_angle_std.val <= 0))
                        => ~head.enable_sampling
                  /\ (kw.adaptive_sampling /\ ~kw.class_sizes.some)
                        => ~head.adaptive_sampling

\* a construction that raised on a std of at least pi/2
C4_Witness ==
    /\ last.op = "__init__"
    /\ last.outcome = "error"
    /\ head = NoHead
    /\ last.kw.sampling_angle_std.val >= HalfPi

\* the names of the steps a forward call ran, in order
StepNames(res) == [i \in 1..Len(res.steps) |-> res.steps[i].name]

\* the output of the step of the given name
StepOut(res, name) ==
    res.steps[CHOOSE i \in 1..Len(res.steps) : res.steps[i].name = name].out

Ran(res, name) == \E i \in 1..Len(res.steps) : res.steps[i].name = name

\* the place of a step in the documented control flow
Rank(name) ==
    LET order == <<"squash", "dropout", "project", "normalize", "mix",
                   "sample", "score">>
    IN  CHOOSE i \in 1..Len(order) : order[i] = name

\* the head built from the same options with mixing and sampling disabled
Unaugmented(h) ==
    [h EXCEPT !.enable_class_mixing = FALSE, !.enable_sampling = FALSE,
              !.adaptive_sampling = FALSE, !.sampling_angle_std = UnsetStd]

\* C2: outside training mode forward returns what the same call returns on
\* the head with class mixing and sampling disabled, runs neither _mix_embd
\* nor _sample_embd and makes no random draw, with or without labels.
C2_InferenceAugmentersInert ==
    (last.op = "forward" /\ ~head.training) =>
        LET ref == Forward(Unaugmented(head), last.x, last.labels,
                           last.return_extra_data, last.rnd)
        IN  /\ last.res.outcome = "ok"
            /\ ref.outcome = "ok"
            /\ last.res.ret = ref.ret
            /\ ~Ran(last.res, "mix")
            /\ ~Ran(last.res, "sample")
            /\ last.res.draws = <<>>

\* an inference-mode call without labels on a head with both augmenters on
C2_Witness ==
    /\ last.op = "forward"
    /\ ~head.training
    /\ head.with_embedding
    /\ head.enable_class_mixing
    /\ head.enable_sampling
    /\ ~last.labels.some
    /\ last.return_extra_data
    /\ last.res.outcome = "ok"

\* C5 as stated: a training-mode forward with class mixing or adaptive
\* sampling active and labels=None, and loss without labels, raise and
\* return nothing.
C5_MissingLabelsRaise ==
    /\ (/\ last.op = "forward"
        /\ head.training
        /\ head.with_embedding
        /\ ~last.labels.some
        /\ (head.enable_class_mixing \/ head.adaptive_sampling))
          => (last.res.outcome = "error" /\ last.res.ret = <<>>)
    /\ (last.op = "loss" /\ ~last.labels.some)
          => (~last.res.ok /\ last.res.losses = <<>>)

\* C6: with sampling and class mixing both off, in either mode, the embedding
\* scored by fc_angular, and returned with return_extra_data, is the output
\* of the normalize step.
C6_NoAugmenterEmbeddingUntouched ==
    (/\ last.op = "forward"
     /\ head.with_embedding
     /\ ~head.enable_sampling
     /\ ~head.enable_class_mixing) =>
        /\ last.res.outcome = "ok"
        /\ Ran(last.res, "normalize")
        /\ last.res.ret[1] = FcAngular(StepOut(last.res, "normalize"))
        /\ last.return_extra_data =>
              last.res.ret[2] = Some(StepOut(last.res, "normalize"))
        /\ StepOut(last.res, "normalize") =
              LET x2 == StepOut(last.res,
                                IF head.fc_pre_angular THEN "project"
                                ELSE IF head.dropout THEN "dropout"
                                ELSE "squash")
                  rows == View(x2, head.embd_size)
              IN  [n \in 1..Len(rows) |-> Normalize(rows[n])]

\* a training-mode call on an embedding head with both augmenters off
C6_Witness ==
    /\ last.op = "forward"
    /\ head.training
    /\ head.with_embedding
    /\ ~head.enable_sampling
    /\ ~head.enable_class_mixing
    /\ last.labels.some
    /\ last.return_extra_data
    /\ last.res.outcome = "ok"

\* C10: an embedding-mode forward runs squash, dropout (if configured),
\* project (if channels differ from embd_size), normalize, mixing (if
\* active), sampling (if active), score in this order, each at most once; a
\* call that returns has called the score layer once, last, on the output of
\* the step before it, which is the embedding returned.
C10_StepOrder ==
    (last.op = "forward" /\ head.with_embedding) =>
        LET res == last.res
            names == StepNames(res)
            L == Len(names)
        IN  /\ \A i \in 1..L : \A j \in 1..L :
                  i < j => Rank(names[i]) < Rank(names[j])
            /\ names[1] = "squash"
            /\ Ran(res, "dropout") <=> head.dropout
            /\ Ran(res, "project") <=> head.in_channels # head.embd_size
            /\ Ran(res, "normalize")
            /\ Ran(res, "mix") => (head.training /\ head.enable_class_mixing)
            /\ Ran(res, "sample") => (head.training /\ head.enable_sampling)
            /\ res.outcome = "ok" =>
                  /\ Ran(res, "mix") <=>
                        (head.training /\ head.enable_class_mixing)
                  /\ Ran(res, "sample") <=>
                        (head.training /\ head.enable_sampling)
                  /\ names[L] = "score"
                  /\ res.steps[L].out = FcAngular(res.steps[L - 1].out)
                  /\ res.ret[1] = res.steps[L].out
                  /\ last.return_extra_data =>
                        res.ret[2] = Some(res.steps[L - 1].out)

\* a call that ran all seven steps
C10_Witness ==
    /\ last.op = "forward"
    /\ head.with_embedding
    /\ last.res.outcome = "ok"
    /\ last.return_extra_data
    /\ StepNames(last.res) = <<"squash", "dropout", "project", "normalize",
                               "mix", "sample", "score">>

StartsWith(s, prefix) ==
    Len(s) >= Len(prefix) /\ SubSeq(s, 1, Len(prefix)) = prefix

EndsWith(s, suffix) ==
    /\ Len(s) >= Len(suffix)
    /\ SubSeq(s, Len(s) - Len(suffix) + 1, Len(s)) = suffix

LossSlash == <<"l", "o", "s", "s", "/">>

\* C7 as stated: every key of the mapping loss returns starts with "loss/"
\* and ends with the name suffix.
C7_EveryKeyUnderLoss ==
    (last.op = "loss" /\ last.res.ok) =>
        \A i \in 1..Len(last.res.losses) :
            /\ StartsWith(last.res.losses[i].key, LossSlash)
            /\ EndsWith(last.res.losses[i].key, last.name)

\* C7 amended: every key ends with the name suffix; the primary loss is keyed
\* "loss/cls" + name, the last-scale value "scale/cls" + name (not under
\* "loss/"), and an extra loss its configured name with every "_" replaced by
\* "/" followed by name, which starts with "loss/" exactly when the
\* configured name starts with "loss_".
C7_KeysByTerm ==
    (last.op = "loss" /\ last.res.ok) =>
        LET d == last.res.losses
            KeyOf(val) == d[CHOOSE i \in 1..Len(d) : d[i].val = val].key
            Has(val) == \E i \in 1..Len(d) : d[i].val = val
        IN  /\ \A i \in 1..Len(d) : EndsWith(d[i].key, last.name)
            /\ Has(<<"head_loss">>)
            /\ KeyOf(<<"head_loss">>) = LossClsKey \o last.name
            /\ Has(<<"last_scale">>) <=> head.has_last_scale
            /\ head.has_last_scale =>
                  /\ KeyOf(<<"last_scale">>) = ScaleClsKey \o last.name
                  /\ ~StartsWith(KeyOf(<<"last_scale">>), LossSlash)
            /\ \A e \in 1..Len(head.losses_extra) :
                  LET nm == head.losses_extra[e]
                      key == KeyOf(<<"extra">> \o nm)
                  IN  /\ Has(<<"extra">> \o nm)
                      /\ Len(key) = Len(nm) + Len(last.name)
                      /\ \A c \in 1..Len(nm) :
                            key[c] = IF nm[c] = "_" THEN "/" ELSE nm[c]
                      /\ StartsWith(key, LossSlash) <=>
                            StartsWith(nm, <<"l", "o", "s", "s", "_">>)

\* a loss call on a head with a last-scale value and two extra losses
C7_Witness ==
    /\ last.op = "loss"
    /\ last.res.ok
    /\ head.has_last_scale
    /\ Len(head.losses_extra) = 2
    /\ Len(last.name) > 0
    /\ Len(last.res.losses) >= 4

====
